---- MODULE Spec2Model ----
(***************************************************************************)
(* Model of the waymo-counter scan pipeline: run_scan and process_camera   *)
(* (src/src/main.py), the WaymoDetector model lifecycle                    *)
(* (src/src/detector.py) and the Database record store                     *)
(* (src/src/database.py).                                                  *)
(*                                                                         *)
(* Python's None is the empty tuple <<>> and a present value v is <<v>>,   *)
(* so that "x is None" and the truthiness of an Optional[str] are          *)
(* computed, never assumed.                                                *)
(***************************************************************************)
EXTENDS Integers, Sequences, FiniteSets, TLC

\* ---------------------------------------------------------------- bounds
MaxCameras == 3
MaxWorkersCfg == 2
MaxCount == 2
MaxCallers == 3
MaxList == 1200
MaxDay == 2
MaxCalls == 2
MaxY == 24
MaxTextHeight == 12

\* ------------------------------------------------------- python helpers
None == <<>>
Some(v) == <<v>>
IsNone(x) == x = <<>>
Val(x) == x[1]

Min(a, b) == IF a <= b THEN a ELSE b

SeqToSet(s) == {s[i] : i \in 1..Len(s)}

\* ------------------------------------------------------------ detector.py
\* The attributes of the DetectionResult dataclass.
DetectionResultFields == {"camera_id", "waymo_count", "detections", "avg_confidence"}

\* DetectionResult(camera_id=..., waymo_count=len(detections), ...)
MakeDetectionResult_with_image(camera_id, n) ==
    [camera_id |-> camera_id,
     waymo_count |-> n,
     detections |-> [i \in 1..n |-> "box"],
     avg_confidence |-> IF n > 0 THEN Some("avg") ELSE None,
     original_image |-> Some("image")]

MakeDetectionResult(camera_id, n) ==
    [camera_id |-> camera_id,
     waymo_count |-> n,
     detections |-> [i \in 1..n |-> "box"],
     avg_confidence |-> IF n > 0 THEN Some("avg") ELSE None]

\* getattr succeeds exactly on the attributes the object has.
HasAttr(obj, name) == name \in DOMAIN obj

\* load_model: "if self.model is not None: return"
ModelIsLoaded(m) == ~IsNone(m)

\* What detect_from_bytes can do on fetched bytes: Image.open raises on a
\* malformed image, predict raises (possibly with an empty message, e.g. a
\* bare assert), or a DetectionResult with n boxes is returned.
InferenceMessages == {"", "inference failed"}
DecodeMessage == "cannot identify image file"
DetectOutcomes ==
    {[kind |-> "decode_error", msg |-> DecodeMessage, n |-> 0]}
    \cup {[kind |-> "inference_error", msg |-> m, n |-> 0] : m \in InferenceMessages}
    \cup {[kind |-> "result", msg |-> "", n |-> k] : k \in 0..MaxCount}

\* ------------------------------------------------------------ database.py
\* Database.create_scan: the inserted row holds the five counters;
\* duration_seconds is only written when it is not None.
create_scan_swapped(total_cameras, scanned, failed, total_count, with_waymos) ==
    [total_cameras |-> scanned,
     cameras_scanned |-> total_cameras,
     cameras_failed |-> failed,
     total_waymo_count |-> total_count,
     cameras_with_waymos |-> with_waymos,
     duration_seconds |-> None]

create_scan(total_cameras, scanned, failed, total_count, with_waymos) ==
    [total_cameras |-> total_cameras,
     cameras_scanned |-> scanned,
     cameras_failed |-> failed,
     total_waymo_count |-> total_count,
     cameras_with_waymos |-> with_waymos,
     duration_seconds |-> None]

\* Database.update_scan: every argument that is not None overwrites its column.
update_scan(row, scanned, failed, total_count, with_waymos, duration) ==
    [row EXCEPT
       !.cameras_scanned = IF IsNone(scanned) THEN @ ELSE Val(scanned),
       !.cameras_failed = IF IsNone(failed) THEN @ ELSE Val(failed),
       !.total_waymo_count = IF IsNone(total_count) THEN @ ELSE Val(total_count),
       !.cameras_with_waymos = IF IsNone(with_waymos) THEN @ ELSE Val(with_waymos),
       !.duration_seconds = IF IsNone(duration) THEN @ ELSE duration]

\* Database.insert_detection(scan_id, result): no row for a zero count.
insert_detection_no_guard(table, scan_id, result) ==
    Append(table, [scan_id |-> scan_id,
                   camera_id |-> result.camera_id,
                   waymo_count |-> result.waymo_count])

insert_detection(table, scan_id, result) ==
    IF result.waymo_count = 0
    THEN table
    ELSE Append(table, [scan_id |-> scan_id,
                        camera_id |-> result.camera_id,
                        waymo_count |-> result.waymo_count])

\* The positional parameters insert_detection accepts after self.
insert_detection_params == <<"scan_id", "result">>

\* A call of db.insert_detection with the positional arguments args: Python
\* raises TypeError before the body runs when the arity does not match.
call_insert_detection(table, args) ==
    IF Len(args) /= Len(insert_detection_params)
    THEN [raised |-> Some("TypeError"), table |-> table]
    ELSE [raised |-> None, table |-> insert_detection(table, args[1], args[2])]

\* Database.bulk_upsert_cameras: batches of batch_size, in list order.
batch_size == 500

bulk_upsert_batches_floor(data) ==
    [k \in 1..(Len(data) \div batch_size) |->
        SubSeq(data, (k - 1) * batch_size + 1, Min(k * batch_size, Len(data)))]

bulk_upsert_batches(data) ==
    [k \in 1..((Len(data) + batch_size - 1) \div batch_size) |->
        SubSeq(data, (k - 1) * batch_size + 1, Min(k * batch_size, Len(data)))]

\* ---------------------------------------------------------------- main.py
\* components built by run_scan before the scan starts
image_storage == Some("ImageStorage")

AttributeErrorMessage == "'DetectionResult' object has no attribute 'original_image'"
FetchFailedMessage == "Failed to fetch image"

\* The 4-tuple (camera, detection_result, error_message, image_url) a task
\* returns; kind = "raised" is a future whose result() re-raises.
Returned(camera, result, error, image_url) ==
    [kind |-> "returned", camera |-> camera, result |-> result,
     error |-> error, image_url |-> image_url]

\* process_camera: "if image_bytes is None: return (camera, None, msg, None)"
process_camera_fetch_failed_no_msg(camera) ==
    Returned(camera, None, None, None)

process_camera_fetch_failed(camera) ==
    Returned(camera, None, Some(FetchFailedMessage), None)

\* process_camera: "except Exception as e: return (camera, None, str(e), None)"
process_camera_no_except(camera, msg) ==
    [kind |-> "raised", camera |-> camera, result |-> None,
     error |-> Some(msg), image_url |-> None]

process_camera_except(camera, msg) ==
    Returned(camera, None, Some(msg), None)

\* process_camera: the condition
\*   result and result.waymo_count > 0 and image_storage and result.original_image
\* evaluated left to right with short circuit.
EvidenceGuard(result, storage) ==
    IF ~(result.waymo_count > 0) THEN "false"
    ELSE IF IsNone(storage) THEN "false"
    ELSE IF ~HasAttr(result, "original_image") THEN "AttributeError"
    ELSE IF IsNone(result.original_image) THEN "false"
    ELSE "true"

\* process_camera after detect_from_bytes returned result: annotate, compress
\* and upload when the condition holds, then return the tuple. upload is what
\* upload_image returns (a url, or None when the upload fails).
process_camera_evidence(camera, result, storage, upload) ==
    LET g == EvidenceGuard(result, storage) IN
    IF g = "AttributeError"
    THEN [future |-> process_camera_except(camera, AttributeErrorMessage),
          uploaded |-> FALSE]
    ELSE IF g = "true"
    THEN [future |-> Returned(camera, Some([result EXCEPT !.original_image = None]),
                              None, upload),
          uploaded |-> TRUE]
    ELSE [future |-> Returned(camera, Some(result), None, None),
          uploaded |-> FALSE]

\* "if error:" on an Optional[str]
Truthy(error) == ~IsNone(error) /\ Val(error) /= ""

\* run_scan: the body of "for future in as_completed(futures)" applied to one
\* completed future, on the aggregates agg and the detections table.
LoopBody_failed_not_counted(agg, fut, table, scan_id) ==
    IF fut.kind = "raised"
    THEN [agg |-> agg, table |-> table, raised |-> fut.error]
    ELSE IF Truthy(fut.error)
    THEN [agg |-> agg, table |-> table, raised |-> None]
    ELSE LET a1 == [agg EXCEPT !.cameras_scanned = @ + 1,
                               !.processed_cameras = Append(@, fut.camera)]
         IN IF ~IsNone(fut.result) /\ Val(fut.result).waymo_count > 0
            THEN LET call == call_insert_detection(
                                 table, <<scan_id, Val(fut.result), fut.image_url>>)
                 IN [agg |-> [a1 EXCEPT
                                !.total_waymo_count = @ + Val(fut.result).waymo_count,
                                !.cameras_with_waymos = @ + 1],
                     table |-> call.table, raised |-> call.raised]
            ELSE [agg |-> a1, table |-> table, raised |-> None]

LoopBody_ge(agg, fut, table, scan_id) ==
    IF fut.kind = "raised"
    THEN [agg |-> agg, table |-> table, raised |-> fut.error]
    ELSE IF Truthy(fut.error)
    THEN [agg |-> [agg EXCEPT !.cameras_failed = @ + 1],
          table |-> table, raised |-> None]
    ELSE LET a1 == [agg EXCEPT !.cameras_scanned = @ + 1,
                               !.processed_cameras = Append(@, fut.camera)]
         IN IF ~IsNone(fut.result) /\ Val(fut.result).waymo_count >= 0
            THEN LET call == call_insert_detection(
                                 table, <<scan_id, Val(fut.result), fut.image_url>>)
                 IN [agg |-> [a1 EXCEPT
                                !.total_waymo_count = @ + Val(fut.result).waymo_count,
                                !.cameras_with_waymos = @ + 1],
                     table |-> call.table, raised |-> call.raised]
            ELSE [agg |-> a1, table |-> table, raised |-> None]

LoopBody_keeps_last(agg, fut, table, scan_id) ==
    IF fut.kind = "raised"
    THEN [agg |-> agg, table |-> table, raised |-> fut.error]
    ELSE IF Truthy(fut.error)
    THEN [agg |-> [agg EXCEPT !.cameras_failed = @ + 1],
          table |-> table, raised |-> None]
    ELSE LET a1 == [agg EXCEPT !.cameras_scanned = @ + 1,
                               !.processed_cameras = <<fut.camera>>]
         IN IF ~IsNone(fut.result) /\ Val(fut.result).waymo_count > 0
            THEN LET call == call_insert_detection(
                                 table, <<scan_id, Val(fut.result), fut.image_url>>)
                 IN [agg |-> [a1 EXCEPT
                                !.total_waymo_count = @ + Val(fut.result).waymo_count,
                                !.cameras_with_waymos = @ + 1],
                     table |-> call.table, raised |-> call.raised]
            ELSE [agg |-> a1, table |-> table, raised |-> None]

LoopBody(agg, fut, table, scan_id) ==
    IF fut.kind = "raised"
    THEN [agg |-> agg, table |-> table, raised |-> fut.error]
    ELSE IF Truthy(fut.error)
    THEN [agg |-> [agg EXCEPT !.cameras_failed = @ + 1],
          table |-> table, raised |-> None]
    ELSE LET a1 == [agg EXCEPT !.cameras_scanned = @ + 1,
                               !.processed_cameras = Append(@, fut.camera)]
         IN IF ~IsNone(fut.result) /\ Val(fut.result).waymo_count > 0
            THEN LET call == call_insert_detection(
                                 table, <<scan_id, Val(fut.result), fut.image_url>>)
                 IN [agg |-> [a1 EXCEPT
                                !.total_waymo_count = @ + Val(fut.result).waymo_count,
                                !.cameras_with_waymos = @ + 1],
                     table |-> call.table, raised |-> call.raised]
            ELSE [agg |-> a1, table |-> table, raised |-> None]

\* ------------------------------------------------------------------ state
VARIABLES
    pc,                 \* position of the main thread in main / run_scan
    exit_code,          \* None while running, then the process exit status
    max_workers,        \* config.max_workers
    cameras,            \* the list fetch_active_cameras returned
    model,              \* WaymoDetector.model
    loads,              \* number of YOLO(...) constructions so far
    submitted,          \* number of executor.submit calls made
    task,               \* camera -> state of its pool task
    hist,               \* camera -> what fetch_image, detect and the sink did
    future,             \* camera -> outcome of its settled task
    consumed,           \* cameras whose future as_completed has yielded
    cameras_scanned,
    cameras_failed,
    total_waymo_count,
    cameras_with_waymos,
    processed_cameras,
    scans,              \* the run's row of table scans (None before create_scan)
    detections,         \* rows of table detections
    uploads,            \* camera ids of the upload_image calls made
    upsert_arg,         \* the list bulk_upsert_cameras was called with
    upsert_calls,       \* the batches upserted into table cameras
    db_calls,           \* record-store writes in the order they were made
    caller,             \* detector-only threads: thread -> position
    api_calls           \* direct calls of upload_image / annotate_image

vars == <<pc, exit_code, max_workers, cameras, model, loads, submitted, task,
          hist, future, consumed, cameras_scanned, cameras_failed,
          total_waymo_count, cameras_with_waymos, processed_cameras, scans,
          detections, uploads, upsert_arg, upsert_calls, db_calls, caller, api_calls>>

aggVars == <<cameras_scanned, cameras_failed, total_waymo_count,
             cameras_with_waymos, processed_cameras>>
dbVars == <<scans, detections, upsert_arg, upsert_calls, db_calls>>
poolVars == <<submitted, task, hist, future, uploads>>
detectorVars == <<model, loads>>

CameraIds == 1..MaxCameras
Callers == 1..MaxCallers
ScanId == "scan-1"
Duration == Some("elapsed")

Agg == [cameras_scanned |-> cameras_scanned,
        cameras_failed |-> cameras_failed,
        total_waymo_count |-> total_waymo_count,
        cameras_with_waymos |-> cameras_with_waymos,
        processed_cameras |-> processed_cameras]

Init ==
    /\ pc = "load_model"
    /\ exit_code = None
    /\ max_workers \in 1..MaxWorkersCfg
    /\ cameras = <<>>
    /\ model = None
    /\ loads = 0
    /\ submitted = 0
    /\ task = [c \in CameraIds |-> "NONE"]
    /\ hist = [c \in CameraIds |->
                 [fetch |-> "none", detect |-> None, sink |-> "unused"]]
    /\ future = [c \in CameraIds |-> None]
    /\ consumed = {}
    /\ cameras_scanned = 0
    /\ cameras_failed = 0
    /\ total_waymo_count = 0
    /\ cameras_with_waymos = 0
    /\ processed_cameras = <<>>
    /\ scans = None
    /\ detections = <<>>
    /\ uploads = <<>>
    /\ upsert_arg = None
    /\ upsert_calls = <<>>
    /\ db_calls = <<>>
    /\ caller = [t \in Callers |-> [pc |-> "idle", via |-> "none"]]
    /\ api_calls = <<>>

\* ------------------------------------------------- run_scan, main thread
\* run_scan: "detector.load_model()" before any task is submitted.
PreloadModel ==
    /\ pc = "load_model"
    /\ IF ModelIsLoaded(model)
       THEN UNCHANGED detectorVars
       ELSE /\ loads' = loads + 1
            /\ model' = Some(loads + 1)
    /\ pc' = "fetch_cameras"
    /\ UNCHANGED <<exit_code, max_workers, cameras, consumed, caller, api_calls>>
    /\ UNCHANGED <<aggVars, dbVars, poolVars>>

\* run_scan: fetch_active_cameras, and "if not cameras: return".
FetchActiveCameras_no_check ==
    /\ pc = "fetch_cameras"
    /\ \E n \in 0..MaxCameras :
         /\ cameras' = [i \in 1..n |-> i]
         /\ pc' = "create_scan"
         /\ exit_code' = exit_code
    /\ UNCHANGED <<max_workers, consumed, caller, api_calls>>
    /\ UNCHANGED <<aggVars, dbVars, poolVars, detectorVars>>

FetchActiveCameras ==
    /\ pc = "fetch_cameras"
    /\ \E n \in 0..MaxCameras :
         /\ cameras' = [i \in 1..n |-> i]
         /\ IF n = 0
            THEN pc' = "no_cameras" /\ exit_code' = Some(0)
            ELSE pc' = "create_scan" /\ exit_code' = exit_code
    /\ UNCHANGED <<max_workers, consumed, caller, api_calls>>
    /\ UNCHANGED <<aggVars, dbVars, poolVars, detectorVars>>

\* run_scan: db.create_scan(total_cameras=len(cameras), 0, 0, 0, 0) and the
\* initialisation of the local aggregates.
CreateScan ==
    /\ pc = "create_scan"
    /\ scans' = Some(create_scan(Len(cameras), 0, 0, 0, 0))
    /\ db_calls' = Append(db_calls, "create_scan")
    /\ cameras_scanned' = 0
    /\ cameras_failed' = 0
    /\ total_waymo_count' = 0
    /\ cameras_with_waymos' = 0
    /\ processed_cameras' = <<>>
    /\ pc' = "submit"
    /\ UNCHANGED <<exit_code, max_workers, cameras, consumed, caller, api_calls>>
    /\ UNCHANGED <<detections, upsert_arg, upsert_calls>>
    /\ UNCHANGED <<poolVars, detectorVars>>

\* run_scan: one executor.submit(process_camera, camera, ...) per camera, in
\* list order; the completion loop starts after the last one.
Submit ==
    /\ pc = "submit"
    /\ submitted < Len(cameras)
    /\ submitted' = submitted + 1
    /\ task' = [task EXCEPT ![cameras[submitted + 1]] = "PENDING"]
    /\ pc' = IF submitted + 1 = Len(cameras) THEN "loop" ELSE "submit"
    /\ UNCHANGED <<exit_code, max_workers, cameras, consumed, caller, api_calls>>
    /\ UNCHANGED <<hist, future, uploads>>
    /\ UNCHANGED <<aggVars, dbVars, detectorVars>>

Settled(c) == task[c] \in {"DONE", "FAILED"}
Running == {c \in CameraIds : task[c] \in {"FETCHING", "DETECTING"}}
Pending == {c \in CameraIds : task[c] = "PENDING"}
PoolActive == pc \in {"submit", "loop", "aborting"}

\* run_scan: one iteration of "for future in as_completed(futures)": any
\* settled future not yet yielded is yielded next. An exception raised in the
\* body leaves the loop; the with block then waits for the pool.
Consume(c) ==
    /\ pc = "loop"
    /\ c \in SeqToSet(cameras)
    /\ Settled(c)
    /\ c \notin consumed
    /\ consumed' = consumed \cup {c}
    /\ LET r == LoopBody(Agg, Val(future[c]), detections, ScanId) IN
         /\ cameras_scanned' = r.agg.cameras_scanned
         /\ cameras_failed' = r.agg.cameras_failed
         /\ total_waymo_count' = r.agg.total_waymo_count
         /\ cameras_with_waymos' = r.agg.cameras_with_waymos
         /\ processed_cameras' = r.agg.processed_cameras
         /\ detections' = r.table
         /\ db_calls' = IF r.table /= detections
                        THEN Append(db_calls, "insert_detection")
                        ELSE db_calls
         /\ pc' = IF IsNone(r.raised) THEN "loop" ELSE "aborting"
    /\ UNCHANGED <<exit_code, max_workers, cameras, caller, api_calls>>
    /\ UNCHANGED <<scans, upsert_arg, upsert_calls>>
    /\ UNCHANGED <<poolVars, detectorVars>>

\* run_scan: leaving "with ThreadPoolExecutor(...)": normally once every
\* future was yielded; on an exception once shutdown(wait=True) has let every
\* submitted task finish, after which main prints FATAL ERROR and exits 1.
ExecutorExit_early ==
    /\ \/ /\ pc = "loop"
          /\ consumed /= {}
          /\ pc' = "update_scan"
          /\ exit_code' = exit_code
       \/ /\ pc = "aborting"
          /\ \A c \in SeqToSet(cameras) : Settled(c)
          /\ pc' = "fatal"
          /\ exit_code' = Some(1)
    /\ UNCHANGED <<max_workers, cameras, consumed, caller, api_calls>>
    /\ UNCHANGED <<aggVars, dbVars, poolVars, detectorVars>>

ExecutorExit ==
    /\ \/ /\ pc = "loop"
          /\ consumed = SeqToSet(cameras)
          /\ pc' = "update_scan"
          /\ exit_code' = exit_code
       \/ /\ pc = "aborting"
          /\ \A c \in SeqToSet(cameras) : Settled(c)
          /\ pc' = "fatal"
          /\ exit_code' = Some(1)
    /\ UNCHANGED <<max_workers, cameras, consumed, caller, api_calls>>
    /\ UNCHANGED <<aggVars, dbVars, poolVars, detectorVars>>

\* run_scan: db.update_scan(scan_id, cameras_scanned, cameras_failed,
\* total_waymo_count, cameras_with_waymos, duration).
UpdateScan ==
    /\ pc = "update_scan"
    /\ scans' = Some(update_scan(Val(scans), Some(cameras_scanned),
                                 Some(cameras_failed), Some(total_waymo_count),
                                 Some(cameras_with_waymos), Duration))
    /\ db_calls' = Append(db_calls, "update_scan")
    /\ pc' = "bulk_upsert"
    /\ UNCHANGED <<exit_code, max_workers, cameras, consumed, caller, api_calls>>
    /\ UNCHANGED <<detections, upsert_arg, upsert_calls>>
    /\ UNCHANGED <<aggVars, poolVars, detectorVars>>

\* run_scan: db.bulk_upsert_cameras(processed_cameras), then the summary.
BulkUpsert ==
    /\ pc = "bulk_upsert"
    /\ upsert_arg' = Some(processed_cameras)
    /\ upsert_calls' = upsert_calls \o bulk_upsert_batches(processed_cameras)
    /\ db_calls' = db_calls \o [k \in 1..Len(bulk_upsert_batches(processed_cameras))
                                 |-> "upsert_cameras"]
    /\ pc' = "done"
    /\ exit_code' = Some(0)
    /\ UNCHANGED <<max_workers, cameras, consumed, caller, api_calls>>
    /\ UNCHANGED <<scans, detections>>
    /\ UNCHANGED <<aggVars, poolVars, detectorVars>>

\* A record-store call (create_scan, update_scan, the upsert) raises: nothing
\* in run_scan catches it, main prints FATAL ERROR and exits 1.
RecordStoreRaises_swallowed ==
    /\ pc \in {"create_scan", "update_scan", "bulk_upsert"}
    /\ pc' = IF pc = "update_scan" THEN "bulk_upsert" ELSE "fatal"
    /\ exit_code' = IF pc = "update_scan" THEN exit_code ELSE Some(1)
    /\ UNCHANGED <<max_workers, cameras, consumed, caller, api_calls>>
    /\ UNCHANGED <<aggVars, dbVars, poolVars, detectorVars>>

RecordStoreRaises ==
    /\ pc \in {"create_scan", "update_scan", "bulk_upsert"}
    /\ pc' = "fatal"
    /\ exit_code' = Some(1)
    /\ UNCHANGED <<max_workers, cameras, consumed, caller, api_calls>>
    /\ UNCHANGED <<aggVars, dbVars, poolVars, detectorVars>>

\* ---------------------------------------------------------- pool workers
\* ThreadPoolExecutor: a free worker takes the oldest queued task; at most
\* max_workers tasks run at a time.
WorkerStart_unbounded(c) ==
    /\ PoolActive
    /\ task[c] = "PENDING"
    /\ \A d \in Pending : c <= d
    /\ task' = [task EXCEPT ![c] = "FETCHING"]
    /\ UNCHANGED <<pc, exit_code, max_workers, cameras, consumed, caller, api_calls>>
    /\ UNCHANGED <<submitted, hist, future, uploads>>
    /\ UNCHANGED <<aggVars, dbVars, detectorVars>>

WorkerStart_cancel_after_failure(c) ==
    /\ PoolActive
    /\ task[c] = "PENDING"
    /\ \A d \in Pending : c <= d
    /\ Cardinality(Running) < max_workers
    /\ \A d \in CameraIds : task[d] /= "FAILED"
    /\ task' = [task EXCEPT ![c] = "FETCHING"]
    /\ UNCHANGED <<pc, exit_code, max_workers, cameras, consumed, caller, api_calls>>
    /\ UNCHANGED <<submitted, hist, future, uploads>>
    /\ UNCHANGED <<aggVars, dbVars, detectorVars>>

WorkerStart(c) ==
    /\ PoolActive
    /\ task[c] = "PENDING"
    /\ \A d \in Pending : c <= d
    /\ Cardinality(Running) < max_workers
    /\ task' = [task EXCEPT ![c] = "FETCHING"]
    /\ UNCHANGED <<pc, exit_code, max_workers, cameras, consumed, caller, api_calls>>
    /\ UNCHANGED <<submitted, hist, future, uploads>>
    /\ UNCHANGED <<aggVars, dbVars, detectorVars>>

\* process_camera: fetch_image returns bytes, or None on an HTTP error, in
\* which case the task returns the failure tuple.
FetchImage_retry(c) ==
    /\ PoolActive
    /\ task[c] = "FETCHING"
    /\ \E ok \in BOOLEAN :
         IF ok
         THEN /\ task' = [task EXCEPT ![c] = "DETECTING"]
              /\ hist' = [hist EXCEPT ![c].fetch = "ok"]
              /\ future' = future
         ELSE /\ task' = task
              /\ hist' = [hist EXCEPT ![c].fetch = "failed"]
              /\ future' = future
    /\ UNCHANGED <<pc, exit_code, max_workers, cameras, consumed, caller, api_calls>>
    /\ UNCHANGED <<submitted, uploads>>
    /\ UNCHANGED <<aggVars, dbVars, detectorVars>>

FetchImage_counts(c) ==
    /\ PoolActive
    /\ task[c] = "FETCHING"
    /\ \E ok \in BOOLEAN :
         IF ok
         THEN /\ task' = [task EXCEPT ![c] = "DETECTING"]
              /\ hist' = [hist EXCEPT ![c].fetch = "ok"]
              /\ future' = future
              /\ cameras_failed' = cameras_failed
         ELSE /\ task' = [task EXCEPT ![c] = "FAILED"]
              /\ hist' = [hist EXCEPT ![c].fetch = "failed"]
              /\ future' = [future EXCEPT ![c] = Some(process_camera_fetch_failed(c))]
              /\ cameras_failed' = cameras_failed + 1
    /\ UNCHANGED <<pc, exit_code, max_workers, cameras, consumed, caller, api_calls>>
    /\ UNCHANGED <<submitted, uploads>>
    /\ UNCHANGED <<cameras_scanned, total_waymo_count, cameras_with_waymos,
                   processed_cameras>>
    /\ UNCHANGED <<dbVars, detectorVars>>

FetchImage(c) ==
    /\ PoolActive
    /\ task[c] = "FETCHING"
    /\ \E ok \in BOOLEAN :
         IF ok
         THEN /\ task' = [task EXCEPT ![c] = "DETECTING"]
              /\ hist' = [hist EXCEPT ![c].fetch = "ok"]
              /\ future' = future
         ELSE /\ task' = [task EXCEPT ![c] = "FAILED"]
              /\ hist' = [hist EXCEPT ![c].fetch = "failed"]
              /\ future' = [future EXCEPT ![c] = Some(process_camera_fetch_failed(c))]
    /\ UNCHANGED <<pc, exit_code, max_workers, cameras, consumed, caller, api_calls>>
    /\ UNCHANGED <<submitted, uploads>>
    /\ UNCHANGED <<aggVars, dbVars, detectorVars>>

\* What the evidence sink answers for the camera's annotated image: only a
\* positive count has an image to upload; upload_image returns None when the
\* storage call raises, else the public url.
SinkAnswer(d, upload) ==
    IF d.kind = "result" /\ d.n > 0
    THEN (IF IsNone(upload) THEN "fails" ELSE "stores")
    ELSE "unused"

\* process_camera from detect_from_bytes to its return: load_model (a no-op
\* once loaded), decode and predict, then the evidence block and the tuple;
\* any exception ends in the except clause.
Detect(c) ==
    /\ PoolActive
    /\ task[c] = "DETECTING"
    /\ IF ModelIsLoaded(model)
       THEN UNCHANGED detectorVars
       ELSE /\ loads' = loads + 1
            /\ model' = Some(loads + 1)
    /\ \E d \in DetectOutcomes, upload \in {None, Some("url")} :
         /\ hist' = [hist EXCEPT ![c].detect = Some(d),
                                 ![c].sink = SinkAnswer(d, upload)]
         /\ IF d.kind = "result"
            THEN LET e == process_camera_evidence(
                              c, MakeDetectionResult(c, d.n), image_storage, upload)
                 IN /\ future' = [future EXCEPT ![c] = Some(e.future)]
                    /\ uploads' = IF e.uploaded THEN Append(uploads, c) ELSE uploads
                    /\ task' = [task EXCEPT ![c] =
                                  IF IsNone(e.future.error) THEN "DONE" ELSE "FAILED"]
            ELSE /\ future' = [future EXCEPT ![c] = Some(process_camera_except(c, d.msg))]
                 /\ uploads' = uploads
                 /\ task' = [task EXCEPT ![c] = "FAILED"]
    /\ UNCHANGED <<pc, exit_code, max_workers, cameras, consumed, caller, api_calls>>
    /\ UNCHANGED submitted
    /\ UNCHANGED <<aggVars, dbVars>>

\* ------------------------------------- WaymoDetector used without preload
\* A thread calls detect_from_bytes or load_model on the detector.
CallerEnter(t) ==
    /\ caller[t].pc = "idle"
    /\ \E via \in {"detect_from_bytes", "load_model"} :
         caller' = [caller EXCEPT ![t] = [pc |-> "check", via |-> via]]
    /\ UNCHANGED <<pc, exit_code, max_workers, cameras, consumed, api_calls>>
    /\ UNCHANGED <<aggVars, dbVars, poolVars, detectorVars>>

AfterLoad(via) == IF via = "detect_from_bytes" THEN "predict" ELSE "returned"

\* load_model: "if self.model is not None: return"
CallerCheck(t) ==
    /\ caller[t].pc = "check"
    /\ caller' = [caller EXCEPT ![t].pc =
                    IF ModelIsLoaded(model) THEN AfterLoad(caller[t].via)
                    ELSE "ensure_model"]
    /\ UNCHANGED <<pc, exit_code, max_workers, cameras, consumed, api_calls>>
    /\ UNCHANGED <<aggVars, dbVars, poolVars, detectorVars>>

\* load_model: "self.ensure_model()" (file check, download when absent)
CallerEnsure(t) ==
    /\ caller[t].pc = "ensure_model"
    /\ caller' = [caller EXCEPT ![t].pc = "construct"]
    /\ UNCHANGED <<pc, exit_code, max_workers, cameras, consumed, api_calls>>
    /\ UNCHANGED <<aggVars, dbVars, poolVars, detectorVars>>

\* load_model: "self.model = YOLO(str(self.model_path))"
CallerConstruct(t) ==
    /\ caller[t].pc = "construct"
    /\ loads' = loads + 1
    /\ model' = Some(loads + 1)
    /\ caller' = [caller EXCEPT ![t].pc = AfterLoad(caller[t].via)]
    /\ UNCHANGED <<pc, exit_code, max_workers, cameras, consumed, api_calls>>
    /\ UNCHANGED <<aggVars, dbVars, poolVars>>

\* detect_from_bytes after load_model: decode, predict, build the result.
CallerPredict(t) ==
    /\ caller[t].pc = "predict"
    /\ caller' = [caller EXCEPT ![t].pc = "returned"]
    /\ UNCHANGED <<pc, exit_code, max_workers, cameras, consumed, api_calls>>
    /\ UNCHANGED <<aggVars, dbVars, poolVars, detectorVars>>

\* --------------------------------------------------------- specifications
Next ==
    \/ PreloadModel
    \/ FetchActiveCameras
    \/ CreateScan
    \/ Submit
    \/ \E c \in CameraIds : Consume(c)
    \/ ExecutorExit
    \/ UpdateScan
    \/ BulkUpsert
    \/ RecordStoreRaises
    \/ \E c \in CameraIds : WorkerStart(c)
    \/ \E c \in CameraIds : FetchImage(c)
    \/ \E c \in CameraIds : Detect(c)

Spec == Init /\ [][Next]_vars

\* ------------------------------------ a run whose record store never fails
\* The steps of the main thread and of the pool when create_scan, update_scan
\* and the upsert return.
MainThread ==
    \/ PreloadModel
    \/ FetchActiveCameras
    \/ CreateScan
    \/ Submit
    \/ \E c \in CameraIds : Consume(c)
    \/ ExecutorExit
    \/ UpdateScan
    \/ BulkUpsert

Worker(c) ==
    \/ WorkerStart(c)
    \/ FetchImage(c)
    \/ Detect(c)

NextLive ==
    \/ MainThread
    \/ \E c \in CameraIds : Worker(c)

\* The process does not stop while one of its threads can take a step: the
\* main thread runs, as_completed wakes up on a settled future, a pool
\* thread with work is scheduled, and fetch_image and detect_from_bytes
\* return or raise (the http client has a timeout).
Fairness == WF_vars(NextLive)

SpecLive == Init /\ [][NextLive]_vars /\ Fairness

NextDetector ==
    \/ \E t \in Callers : CallerEnter(t)
    \/ \E t \in Callers : CallerCheck(t)
    \/ \E t \in Callers : CallerEnsure(t)
    \/ \E t \in Callers : CallerConstruct(t)
    \/ \E t \in Callers : CallerPredict(t)

SpecDetector == Init /\ [][NextDetector]_vars

\* ------------------------------------ Database.bulk_upsert_cameras alone
\* A direct call of bulk_upsert_cameras on a list of n cameras.
CallBulkUpsert ==
    /\ IsNone(upsert_arg)
    /\ \E n \in 0..MaxList :
         LET data == [i \in 1..n |-> i] IN
           /\ upsert_arg' = Some(data)
           /\ upsert_calls' = bulk_upsert_batches(data)
           /\ db_calls' = [k \in 1..Len(bulk_upsert_batches(data)) |-> "upsert_cameras"]
    /\ UNCHANGED <<pc, exit_code, max_workers, cameras, consumed, caller, api_calls>>
    /\ UNCHANGED <<scans, detections>>
    /\ UNCHANGED <<aggVars, poolVars, detectorVars>>

NextUpsert == CallBulkUpsert

SpecUpsert == Init /\ [][NextUpsert]_vars

\* ------------------------------------------- ImageStorage.upload_image alone
\* strftime renders each field as zero-padded decimal digits.
Digit(n) == <<"0", "1", "2", "3", "4", "5", "6", "7", "8", "9">>[n + 1]
TwoDigits(n) == <<Digit((n \div 10) % 10), Digit(n % 10)>>
FourDigits(n) == TwoDigits(n \div 100) \o TwoDigits(n % 100)

\* timestamp.strftime("%Y-%m-%d")
strftime_date(ts) ==
    FourDigits(ts.year) \o <<"-">> \o TwoDigits(ts.month) \o <<"-">> \o TwoDigits(ts.day)

\* timestamp.strftime("%H%M%S")
strftime_time_micro(ts) ==
    TwoDigits(ts.hour) \o TwoDigits(ts.minute) \o TwoDigits(ts.second)
        \o TwoDigits(ts.microsecond \div 10000)

strftime_time(ts) ==
    TwoDigits(ts.hour) \o TwoDigits(ts.minute) \o TwoDigits(ts.second)

\* f"detections/{camera_id}/{date_str}/{time_str}.jpg", one element per segment
file_path(camera_id, ts) ==
    <<"detections", camera_id, strftime_date(ts), strftime_time(ts) \o <<".jpg">>>>

\* upload_image: "if timestamp is None: timestamp = datetime.now(timezone.utc)"
upload_path(camera_id, timestamp, now) ==
    file_path(camera_id, IF IsNone(timestamp) THEN now ELSE Val(timestamp))

\* the datetimes a call is made with, or made at
Timestamps ==
    [year : {2026}, month : {11}, day : 1..MaxDay, hour : {9}, minute : {5},
     second : {7, 30}, microsecond : {0, 500000}]

\* A direct call upload_image(image_bytes, camera_id, timestamp) at wall-clock
\* time now; timestamp is None when the argument is left out.
UploadImage ==
    /\ Len(api_calls) < MaxCalls
    /\ \E cam \in CameraIds, timestamp \in {None} \cup {Some(t) : t \in Timestamps},
          now \in Timestamps :
         api_calls' = Append(api_calls,
                             [fn |-> "upload_image",
                              camera_id |-> cam,
                              timestamp |-> timestamp,
                              path |-> upload_path(cam, timestamp, now)])
    /\ UNCHANGED <<pc, exit_code, max_workers, cameras, consumed, caller>>
    /\ UNCHANGED <<aggVars, dbVars, poolVars, detectorVars>>

NextStorage == UploadImage

SpecStorage == Init /\ [][NextStorage]_vars

\* ---------------------------------------------------- process_camera alone
\* process_camera(camera, camera_fetcher, detector, image_storage) as a
\* function of what fetch_image (fetched), detect_from_bytes (d) and
\* upload_image (upload) answer.
process_camera(camera, fetched, d, storage, upload) ==
    IF ~fetched
    THEN [future |-> process_camera_fetch_failed(camera), uploaded |-> FALSE]
    ELSE IF d.kind /= "result"
    THEN [future |-> process_camera_except(camera, d.msg), uploaded |-> FALSE]
    ELSE process_camera_evidence(camera, MakeDetectionResult(camera, d.n),
                                 storage, upload)

\* A direct call of process_camera; image_storage is None when the argument
\* is left out (its default).
CallProcessCamera ==
    /\ api_calls = <<>>
    /\ \E cam \in CameraIds, storage \in {None, image_storage},
          fetched \in BOOLEAN, d \in DetectOutcomes, upload \in {None, Some("url")} :
         LET r == process_camera(cam, fetched, d, storage, upload) IN
           api_calls' = <<[fn |-> "process_camera",
                           camera_id |-> cam,
                           image_storage |-> storage,
                           fetched |-> fetched,
                           detect |-> d,
                           upload |-> upload,
                           future |-> r.future,
                           uploaded |-> r.uploaded]>>
    /\ UNCHANGED <<pc, exit_code, max_workers, cameras, consumed, caller>>
    /\ UNCHANGED <<aggVars, dbVars, poolVars, detectorVars>>

NextProcessCamera == CallProcessCamera

SpecProcessCamera == Init /\ [][NextProcessCamera]_vars

\* ----------------------------------------------------- annotate_image alone
label_padding == 4

\* annotate_image: the y coordinate of the label of a box (y1, y2) whose text
\* is text_height high.
label_y_le(y1, y2, text_height) ==
    LET above == y1 - text_height - label_padding * 2
    IN IF above <= 0 THEN y2 + label_padding ELSE above

label_y(y1, y2, text_height) ==
    LET above == y1 - text_height - label_padding * 2
    IN IF above < 0 THEN y2 + label_padding ELSE above

\* annotate_image drawing one detection with y1 < y2 inside the image.
AnnotateDetection ==
    /\ api_calls = <<>>
    /\ \E y1 \in 0..MaxY, th \in 1..MaxTextHeight :
         \E y2 \in (y1 + 1)..(MaxY + 1) :
            api_calls' = <<[fn |-> "annotate_image",
                            y1 |-> y1, y2 |-> y2, text_height |-> th,
                            label_y |-> label_y(y1, y2, th)]>>
    /\ UNCHANGED <<pc, exit_code, max_workers, cameras, consumed, caller>>
    /\ UNCHANGED <<aggVars, dbVars, poolVars, detectorVars>>

NextAnnotate == AnnotateDetection

SpecAnnotate == Init /\ [][NextAnnotate]_vars

\* ------------------------------------------------- vocabulary of the claims
CameraSet == SeqToSet(cameras)
Finalized == "update_scan" \in SeqToSet(db_calls)
Row == Val(scans)
FetchFailed(c) == hist[c].fetch = "failed"
DetectCompleted(c) == ~IsNone(hist[c].detect) /\ Val(hist[c].detect).kind = "result"
DetectRaised(c) == ~IsNone(hist[c].detect) /\ Val(hist[c].detect).kind /= "result"
DetectedCount(c) == IF DetectCompleted(c) THEN Val(hist[c].detect).n ELSE 0
NewlyConsumed(c) == c \notin consumed /\ c \in consumed'

RECURSIVE SumDetected(_)
SumDetected(S) ==
    IF S = {} THEN 0
    ELSE LET c == CHOOSE x \in S : TRUE
         IN DetectedCount(c) + SumDetected(S \ {c})

\* C1: once update_scan has finalized the run, the stored aggregates satisfy
\* cameras_scanned + cameras_failed = total_cameras, the value given to
\* create_scan (the length of the camera list).
C1_ScannedPlusFailed ==
    Finalized =>
        /\ Row.total_cameras = Len(cameras)
        /\ Row.cameras_scanned + Row.cameras_failed = Row.total_cameras

C1_Witness ==
    /\ pc = "done"
    /\ Len(cameras) = MaxCameras
    /\ Row.cameras_scanned > 0
    /\ Row.cameras_failed > 0
    /\ \E c \in CameraSet : FetchFailed(c)
    /\ \E c \in CameraSet : DetectRaised(c)
    /\ \E c \in CameraSet : DetectCompleted(c)

\* C2: a fetch, decode or inference failure of a camera task settles the task
\* with a returned failure tuple, never with an exception in the future; the
\* completion loop is never aborted, and when it is left every submitted
\* camera's outcome has been consumed.
C2_FailureIsolation ==
    /\ \A c \in CameraIds :
         (FetchFailed(c) \/ DetectRaised(c)) =>
            /\ task[c] = "FAILED"
            /\ Val(future[c]).kind = "returned"
            /\ IsNone(Val(future[c]).result)
            /\ ~IsNone(Val(future[c]).error)
    /\ pc /= "aborting"
    /\ pc \in {"update_scan", "bulk_upsert", "done"} => consumed = CameraSet

C2_Witness ==
    /\ pc = "done"
    /\ Len(cameras) = MaxCameras
    /\ FetchFailed(1)
    /\ DetectRaised(2) /\ Val(hist[2].detect).kind = "decode_error"
    /\ DetectCompleted(3)
    /\ consumed = CameraSet

\* C3: three cameras, pool size 2; A (camera 1) is detected with 2 boxes, the
\* fetch of B (camera 2) fails, C (camera 3) is detected with 0 boxes. The run
\* ends with total_cameras=3, cameras_scanned=2, cameras_failed=1,
\* total_count=2, cameras_with_detections=1, one detail record (for A) and the
\* metadata upsert receives exactly {A, C}.
C3_Case ==
    /\ Len(cameras) = 3
    /\ max_workers = 2
    /\ DetectCompleted(1) /\ DetectedCount(1) = 2
    /\ FetchFailed(2)
    /\ DetectCompleted(3) /\ DetectedCount(3) = 0

C3_Scenario ==
    (pc = "done" /\ C3_Case) =>
        /\ Row = [create_scan(3, 2, 1, 2, 1) EXCEPT !.duration_seconds = Duration]
        /\ Len(detections) = 1
        /\ detections[1].camera_id = 1
        /\ SeqToSet(Val(upsert_arg)) = {1, 3}
        /\ Len(Val(upsert_arg)) = 2

\* C4: at run end total_count is the sum of the counts the detector returned
\* over the cameras whose detection completed, and cameras_with_detections is
\* the number of those cameras with a count > 0.
C4_TotalCount ==
    Finalized =>
        /\ Row.total_waymo_count = SumDetected(CameraSet)
        /\ Row.cameras_with_waymos =
              Cardinality({c \in CameraSet : DetectedCount(c) > 0})

\* C5: in every state of the completion loop and at run end,
\* cameras_with_detections <= cameras_scanned and
\* total_count >= cameras_with_detections, for the running aggregates and for
\* the stored summary row.
C5_Bounds ==
    /\ cameras_with_waymos <= cameras_scanned
    /\ total_waymo_count >= cameras_with_waymos
    /\ ~IsNone(scans) =>
         /\ Row.cameras_with_waymos <= Row.cameras_scanned
         /\ Row.total_waymo_count >= Row.cameras_with_waymos

C5_Witness ==
    /\ pc = "done"
    /\ Row.cameras_scanned >= 2
    /\ \E c \in consumed : DetectCompleted(c) /\ DetectedCount(c) = 0
    /\ \E c \in consumed : DetectCompleted(c) /\ DetectedCount(c) > 0

\* C6: a camera whose fetch failed has no detection and no upload, is never
\* in processed_cameras nor in the list given to bulk_upsert_cameras, and the
\* step that consumes its outcome adds exactly one to cameras_failed and
\* nothing to cameras_scanned; every consumed outcome is counted once.
C6_State ==
    /\ \A c \in CameraIds :
         FetchFailed(c) =>
            /\ task[c] = "FAILED"
            /\ IsNone(hist[c].detect)
            /\ c \notin SeqToSet(uploads)
            /\ c \notin SeqToSet(processed_cameras)
            /\ ~IsNone(upsert_arg) => c \notin SeqToSet(Val(upsert_arg))
    /\ cameras_scanned + cameras_failed = Cardinality(consumed)

C6_Step ==
    \A c \in CameraIds :
        (FetchFailed(c) /\ NewlyConsumed(c)) =>
            /\ cameras_failed' = cameras_failed + 1
            /\ cameras_scanned' = cameras_scanned

C6_FetchFailure == []C6_State /\ [][C6_Step]_vars

C6_Witness ==
    /\ pc = "done"
    /\ \E c \in consumed : FetchFailed(c)
    /\ Row.cameras_failed >= 1
    /\ Len(Val(upsert_arg)) >= 1

\* C7: a camera whose task failed by a raised exception (decode or inference,
\* whatever the message, the empty one included) is counted in cameras_failed,
\* not in cameras_scanned, and is not in the metadata upsert.
C7_Step ==
    \A c \in CameraIds :
        (DetectRaised(c) /\ NewlyConsumed(c)) =>
            /\ cameras_failed' = cameras_failed + 1
            /\ cameras_scanned' = cameras_scanned

C7_State ==
    \A c \in CameraIds :
        DetectRaised(c) =>
            /\ c \notin SeqToSet(processed_cameras)
            /\ ~IsNone(upsert_arg) => c \notin SeqToSet(Val(upsert_arg))

C7_RaisedIsFailure == []C7_State /\ [][C7_Step]_vars

\* C8: the list given to bulk_upsert_cameras holds exactly the cameras whose
\* detection completed (count zero or positive), each once, and each of them
\* is counted in cameras_scanned.
C8_UpsertList ==
    ~IsNone(upsert_arg) =>
        /\ SeqToSet(Val(upsert_arg)) = {c \in CameraSet : DetectCompleted(c)}
        /\ Len(Val(upsert_arg)) = Cardinality(SeqToSet(Val(upsert_arg)))
        /\ cameras_scanned = Len(Val(upsert_arg))

\* C9: a DetectionResult with count 0 gives no upload call and no detail
\* record: its task returns the result without a url, the step consuming it
\* leaves table detections alone and stays in the loop, and insert_detection
\* applied to a zero-count result returns the table unchanged.
C9_State ==
    /\ \A c \in CameraIds :
         (DetectCompleted(c) /\ DetectedCount(c) = 0) =>
            /\ c \notin SeqToSet(uploads)
            /\ \A i \in 1..Len(detections) : detections[i].camera_id /= c
            /\ task[c] = "DONE"
            /\ IsNone(Val(future[c]).image_url)
            /\ Val(Val(future[c]).result).waymo_count = 0
    /\ \A c \in CameraIds :
         insert_detection(detections, ScanId, MakeDetectionResult(c, 0)) = detections

C9_Step ==
    \A c \in CameraIds :
        (DetectCompleted(c) /\ DetectedCount(c) = 0 /\ NewlyConsumed(c)) =>
            /\ detections' = detections
            /\ db_calls' = db_calls
            /\ pc' = "loop"

C9_ZeroCount == []C9_State /\ [][C9_Step]_vars

C9_Witness ==
    /\ pc = "done"
    /\ \E c \in consumed : DetectCompleted(c) /\ DetectedCount(c) = 0

\* C10: for one WaymoDetector the model is constructed at most once, however
\* many threads call detect_from_bytes or load_model while it is unloaded.
C10_LoadedOnce == loads <= 1

\* C11: the summary row is written exactly twice in a completed run: by
\* create_scan with total_cameras = len(cameras) and every counter zero, and by
\* update_scan with the final aggregates; between the two the row keeps the
\* created values, and no step of a worker or of the completion loop writes it.
CallCount(name) == Cardinality({i \in 1..Len(db_calls) : db_calls[i] = name})

C11_State ==
    /\ IsNone(scans) <=> CallCount("create_scan") = 0
    /\ CallCount("create_scan") <= 1
    /\ CallCount("update_scan") <= 1
    /\ pc \in {"submit", "loop", "update_scan"} =>
         /\ CallCount("create_scan") = 1
         /\ CallCount("update_scan") = 0
         /\ scans = Some([total_cameras |-> Len(cameras),
                          cameras_scanned |-> 0,
                          cameras_failed |-> 0,
                          total_waymo_count |-> 0,
                          cameras_with_waymos |-> 0,
                          duration_seconds |-> None])
    /\ pc \in {"bulk_upsert", "done"} =>
         /\ CallCount("create_scan") = 1
         /\ CallCount("update_scan") = 1
         /\ scans = Some([total_cameras |-> Len(cameras),
                          cameras_scanned |-> cameras_scanned,
                          cameras_failed |-> cameras_failed,
                          total_waymo_count |-> total_waymo_count,
                          cameras_with_waymos |-> cameras_with_waymos,
                          duration_seconds |-> Duration])

C11_Step ==
    /\ scans' /= scans =>
          \/ pc = "create_scan" /\ pc' = "submit"
          \/ pc = "update_scan" /\ pc' = "bulk_upsert"
    /\ (task' /= task \/ future' /= future \/ consumed' /= consumed) =>
          /\ scans' = scans
          /\ CallCount("create_scan")' = CallCount("create_scan")
          /\ CallCount("update_scan")' = CallCount("update_scan")

C11_SummaryWrittenTwice == []C11_State /\ [][C11_Step]_vars

C11_Witness ==
    /\ pc = "done"
    /\ Len(cameras) = MaxCameras
    /\ Row.cameras_scanned > 0
    /\ Row.cameras_failed > 0
    /\ CallCount("create_scan") = 1
    /\ CallCount("update_scan") = 1

\* C12: a camera detected with a count > 0 whose evidence upload fails (the
\* sink gives no reference) is still scanned: once consumed it is in
\* processed_cameras, counted in cameras_with_detections and total_count, and
\* has its detail record.
C12_UploadFailure ==
    \A c \in consumed :
        (DetectCompleted(c) /\ DetectedCount(c) > 0 /\ hist[c].sink = "fails") =>
            /\ c \in SeqToSet(processed_cameras)
            /\ cameras_with_waymos >= 1
            /\ total_waymo_count >= DetectedCount(c)
            /\ \E i \in 1..Len(detections) : detections[i].camera_id = c

\* C13: a record-store failure in update_scan or in insert_detection is not
\* caught by run_scan: the step that raises in update_scan ends the run
\* without finalizing and exits 1; an exception from the loop body leaves the
\* loop, and after the pool has shut down the run exits 1. A run only reaches
\* the upsert and a normal exit when update_scan was written.
C13_State ==
    /\ pc = "fatal" => exit_code = Some(1)
    /\ pc \in {"bulk_upsert", "done"} => Finalized
    /\ pc = "done" => exit_code = Some(0)

C13_Step ==
    /\ (pc = "update_scan" /\ pc' /= "update_scan" /\ ~Finalized') =>
          /\ pc' = "fatal"
          /\ exit_code' = Some(1)
          /\ UNCHANGED <<scans, upsert_arg, upsert_calls>>
    /\ \A c \in CameraIds :
          (pc = "loop" /\ NewlyConsumed(c)
             /\ ~IsNone(LoopBody(Agg, Val(future[c]), detections, ScanId).raised)) =>
                pc' = "aborting"
    /\ pc = "aborting" =>
          /\ pc' \in {"aborting", "fatal"}
          /\ pc' = "fatal" => exit_code' = Some(1)
    /\ (pc = "update_scan" /\ pc' = "bulk_upsert") => Finalized'

C13_PersistenceFailureFatal == []C13_State /\ [][C13_Step]_vars

C13_Witness ==
    /\ pc = "fatal"
    /\ exit_code = Some(1)
    /\ CallCount("create_scan") = 1
    /\ ~Finalized
    /\ consumed = CameraSet
    /\ IsNone(upsert_arg)

\* C14: bulk_upsert_cameras on N cameras makes ceil(N/500) upsert calls, each
\* of 1 to 500 cameras, that taken in order are the list itself (every camera
\* once, in list order); 1200 cameras give 500, 500, 200 and an empty list no
\* call.
RECURSIVE Flatten(_)
Flatten(ss) == IF ss = <<>> THEN <<>> ELSE Head(ss) \o Flatten(Tail(ss))

C14_Chunks ==
    ~IsNone(upsert_arg) =>
        LET data == Val(upsert_arg)
            n == Len(data)
            k == Len(upsert_calls)
        IN /\ k * 500 >= n
           /\ k > 0 => (k - 1) * 500 < n
           /\ \A i \in 1..k : Len(upsert_calls[i]) >= 1 /\ Len(upsert_calls[i]) <= 500
           /\ Flatten(upsert_calls) = data
           /\ n = 1200 => [i \in 1..k |-> Len(upsert_calls[i])] = <<500, 500, 200>>
           /\ n = 0 => upsert_calls = <<>>

C14_Witness ==
    /\ ~IsNone(upsert_arg)
    /\ Len(Val(upsert_arg)) = 1200
    /\ Len(upsert_calls) = 3
    /\ Len(upsert_calls[3]) = 200
    /\ upsert_calls[2][1] = 501

\* C15 (as amended): for upload calls that pass a timestamp, the path is
\* detections/{camera_id}/{YYYY-MM-DD}/{HHMMSS}.jpg of that timestamp, so two
\* calls with the same camera id and the same timestamp to the second use the
\* same path; a call without a timestamp uses the wall clock of the call.
SameSecond(a, b) == [a EXCEPT !.microsecond = 0] = [b EXCEPT !.microsecond = 0]
UploadCalls == 1..Len(api_calls)

C15_PathDeterministic ==
    /\ \A i \in UploadCalls :
         /\ Len(api_calls[i].path) = 4
         /\ api_calls[i].path[1] = "detections"
         /\ api_calls[i].path[2] = api_calls[i].camera_id
         /\ Len(api_calls[i].path[3]) = 10
         /\ Len(api_calls[i].path[4]) = 7
    /\ \A i, j \in UploadCalls :
         (/\ api_calls[i].camera_id = api_calls[j].camera_id
          /\ ~IsNone(api_calls[i].timestamp)
          /\ ~IsNone(api_calls[j].timestamp)
          /\ SameSecond(Val(api_calls[i].timestamp), Val(api_calls[j].timestamp)))
         => api_calls[i].path = api_calls[j].path

C15_Witness ==
    /\ Len(api_calls) = 2
    /\ api_calls[1].camera_id = api_calls[2].camera_id
    /\ ~IsNone(api_calls[1].timestamp)
    /\ ~IsNone(api_calls[2].timestamp)
    /\ api_calls[1].timestamp /= api_calls[2].timestamp
    /\ SameSecond(Val(api_calls[1].timestamp), Val(api_calls[2].timestamp))
    /\ api_calls[1].path = api_calls[2].path

\* C15 as stated: the path depends on camera_id and the timestamp argument
\* only, never on the wall clock: two calls with the same camera id and the
\* same timestamp argument use the same path.
SameTimestampArg(a, b) ==
    \/ IsNone(a) /\ IsNone(b)
    \/ ~IsNone(a) /\ ~IsNone(b) /\ SameSecond(Val(a), Val(b))

C15_Original ==
    \A i, j \in UploadCalls :
        (/\ api_calls[i].camera_id = api_calls[j].camera_id
         /\ SameTimestampArg(api_calls[i].timestamp, api_calls[j].timestamp))
        => api_calls[i].path = api_calls[j].path

\* C16: one task is submitted per camera of the list, in list order; a task
\* only moves forward (PENDING, FETCHING, DETECTING, then DONE or FAILED) and
\* a settled task stays as it is: the fetch and the detection of a camera
\* happen at most once, a failure is never retried, and each outcome is
\* yielded to the completion loop once and counted once.
TaskRank(st) ==
    CASE st = "NONE" -> 0
      [] st = "PENDING" -> 1
      [] st = "FETCHING" -> 2
      [] st = "DETECTING" -> 3
      [] OTHER -> 4

C16_State ==
    /\ submitted <= Len(cameras)
    /\ \A c \in CameraIds :
         task[c] /= "NONE" <=> \E i \in 1..submitted : cameras[i] = c
    /\ \A i, j \in 1..Len(cameras) : cameras[i] = cameras[j] => i = j
    /\ pc \in {"loop", "update_scan", "bulk_upsert", "done"} => submitted = Len(cameras)
    /\ \A c \in consumed : Settled(c)
    /\ \A c \in CameraIds : Settled(c) <=> ~IsNone(future[c])
    /\ cameras_scanned + cameras_failed = Cardinality(consumed)
    /\ pc \in {"update_scan", "bulk_upsert", "done"} => consumed = CameraSet

C16_Step ==
    /\ \A c \in CameraIds :
         /\ TaskRank(task'[c]) >= TaskRank(task[c])
         /\ Settled(c) => task'[c] = task[c] /\ future'[c] = future[c]
         /\ hist[c].fetch /= "none" => hist'[c].fetch = hist[c].fetch
         /\ ~IsNone(hist[c].detect) => hist'[c].detect = hist[c].detect
         /\ c \in consumed => c \in consumed'
    /\ Cardinality(consumed' \ consumed) <= 1
    /\ submitted' \in {submitted, submitted + 1}

C16_OncePerCamera == []C16_State /\ [][C16_Step]_vars

C16_Witness ==
    /\ pc = "done"
    /\ Len(cameras) = MaxCameras
    /\ consumed = CameraSet
    /\ \E c \in CameraSet : FetchFailed(c)
    /\ \E c \in CameraSet : DetectRaised(c)

\* C17: the aggregate counters and processed_cameras change only in a step of
\* the completion loop that consumes one outcome; every step of a worker task
\* (start, fetch, detect and return) and every submit leaves them unchanged.
C17_Step ==
    /\ aggVars' /= aggVars =>
          /\ pc = "loop"
          /\ \E c \in CameraIds : NewlyConsumed(c)
    /\ (task' /= task \/ hist' /= hist \/ future' /= future \/ uploads' /= uploads) =>
          aggVars' = aggVars

C17_CountersOnlyInLoop == [][C17_Step]_vars

C17_Witness ==
    /\ pc = "loop"
    /\ cameras_failed >= 1
    /\ cameras_scanned >= 1
    /\ \E c \in CameraIds : task[c] = "DETECTING"

\* C18: the label of a box is placed above it, at y1 - text_height - 2*4,
\* unless that is negative, in which case it is placed below the box at
\* y2 + 4; a box with y1 = 0 always has its label below.
C18_LabelPlacement ==
    \A i \in 1..Len(api_calls) :
        LET a == api_calls[i]
            top == a.y1 - a.text_height - 8
        IN /\ top >= 0 => a.label_y = top /\ a.label_y + a.text_height + 8 = a.y1
           /\ top < 0 => a.label_y = a.y2 + 4
           /\ a.y1 = 0 => a.label_y = a.y2 + 4 /\ a.label_y > a.y2
           /\ a.label_y >= 0

C18_Witness ==
    /\ Len(api_calls) = 1
    /\ api_calls[1].y1 = 0
    /\ api_calls[1].label_y = api_calls[1].y2 + 4

\* C19: update_scan is written only when every submitted task has settled and
\* its outcome was consumed; every insert_detection precedes update_scan; the
\* upsert is called only after update_scan.
C19_State ==
    /\ Finalized =>
         /\ submitted = Len(cameras)
         /\ \A c \in CameraSet : Settled(c)
         /\ consumed = CameraSet
    /\ \A i, j \in 1..Len(db_calls) :
         /\ (db_calls[i] = "insert_detection" /\ db_calls[j] = "update_scan") => i < j
         /\ (db_calls[i] = "update_scan" /\ db_calls[j] = "upsert_cameras") => i < j
         /\ (db_calls[i] = "create_scan" /\ i /= j) => i < j
    /\ (~IsNone(upsert_arg) \/ CallCount("upsert_cameras") > 0) => Finalized

C19_Step ==
    /\ detections' /= detections => ~Finalized /\ ~Finalized'
    /\ upsert_arg' /= upsert_arg => Finalized

C19_Ordering == []C19_State /\ [][C19_Step]_vars

C19_Witness ==
    /\ pc = "done"
    /\ Len(cameras) = MaxCameras
    /\ Finalized
    /\ CallCount("upsert_cameras") = 1
    /\ db_calls = <<"create_scan", "update_scan", "upsert_cameras">>

\* C20: at most max_workers tasks are started and not yet settled; a pending
\* task starts only when fewer than max_workers are running, and only as the
\* oldest pending one.
C20_State == Cardinality(Running) <= max_workers

C20_Step ==
    \A c \in CameraIds :
        (task[c] = "PENDING" /\ task'[c] /= "PENDING") =>
            /\ task'[c] = "FETCHING"
            /\ Cardinality(Running) < max_workers

C20_BoundedRunning == []C20_State /\ [][C20_Step]_vars

C20_Witness ==
    /\ Cardinality(Running) = max_workers
    /\ Pending /= {}
    /\ \E c \in CameraIds : Settled(c)

\* C21: in a run whose record store does not fail, under fair scheduling the
\* run eventually ends with every submitted task settled (DONE or FAILED);
\* a run only ends without the summary when the camera list was empty, and
\* otherwise it has written update_scan and called bulk_upsert_cameras, with
\* every camera of the list settled and consumed, whatever failed and in
\* whatever order.
C21_Termination ==
    /\ <>[](/\ pc \in {"done", "no_cameras"}
            /\ \A c \in CameraIds : task[c] \in {"NONE", "DONE", "FAILED"})
    /\ [](pc = "done" => /\ Finalized
                         /\ ~IsNone(upsert_arg)
                         /\ consumed = CameraSet
                         /\ \A c \in CameraSet : Settled(c))
    /\ [](pc = "no_cameras" => cameras = <<>>)

C21_Witness ==
    /\ pc = "done"
    /\ max_workers = 1
    /\ Len(cameras) = MaxCameras
    /\ FetchFailed(1)
    /\ DetectCompleted(2)
    /\ DetectRaised(3)
    /\ Finalized
    /\ upsert_arg = Some(<<2>>)

\* C22: when fetch_active_cameras returns an empty list the run ends there as
\* a success: exit status 0, no summary row, no task submitted, no detail
\* record, no upsert, no record-store call at all, and nothing happens
\* afterwards; a run only goes on to create_scan with a non-empty list.
C22_State ==
    (pc \notin {"load_model", "fetch_cameras"} /\ cameras = <<>>) =>
        /\ pc = "no_cameras"
        /\ exit_code = Some(0)
        /\ IsNone(scans)
        /\ db_calls = <<>>
        /\ submitted = 0
        /\ \A c \in CameraIds : task[c] = "NONE"
        /\ detections = <<>>
        /\ uploads = <<>>
        /\ IsNone(upsert_arg)
        /\ upsert_calls = <<>>

C22_Step ==
    /\ pc /= "no_cameras"
    /\ pc' = "no_cameras" => (pc = "fetch_cameras" /\ cameras' = <<>>)
    /\ (pc = "fetch_cameras" /\ pc' = "create_scan") => Len(cameras') > 0

C22_EmptyListSoftSuccess == []C22_State /\ [][C22_Step]_vars

C22_Witness ==
    /\ pc = "no_cameras"
    /\ cameras = <<>>
    /\ exit_code = Some(0)
    /\ loads = 1
    /\ IsNone(scans)

\* C23: a result that process_camera returns holds no original image, whether
\* the count is zero, no image_storage was given, or the evidence block ran
\* (upload answered or failed); the evidence block, which hands the image to
\* the renderer, runs at most once per call and only for a positive count
\* with an image_storage; a completed detection with a zero count or without
\* image_storage is returned as a result without upload.
HoldsImage(result) ==
    HasAttr(result, "original_image") /\ ~IsNone(result.original_image)

C23_ImageReleased ==
    \A i \in 1..Len(api_calls) :
        LET a == api_calls[i]
            f == a.future
            completed == a.fetched /\ a.detect.kind = "result"
        IN /\ f.kind = "returned"
           /\ ~IsNone(f.result) =>
                 /\ completed
                 /\ ~HoldsImage(Val(f.result))
                 /\ Val(f.result).waymo_count = a.detect.n
           /\ a.uploaded =>
                 /\ completed
                 /\ a.detect.n > 0
                 /\ ~IsNone(a.image_storage)
           /\ (completed /\ (a.detect.n = 0 \/ IsNone(a.image_storage))) =>
                 /\ ~IsNone(f.result)
                 /\ ~a.uploaded
                 /\ IsNone(f.image_url)

C23_Witness ==
    /\ Len(api_calls) = 1
    /\ api_calls[1].fn = "process_camera"
    /\ IsNone(api_calls[1].image_storage)
    /\ api_calls[1].fetched
    /\ api_calls[1].detect.kind = "result"
    /\ api_calls[1].detect.n = MaxCount
    /\ ~IsNone(api_calls[1].future.result)
    /\ Val(api_calls[1].future.result).waymo_count = MaxCount
    /\ ~HoldsImage(Val(api_calls[1].future.result))

\* C24: the outcome of a run is a function of the per-camera outcomes alone,
\* not of the order in which tasks settle or are consumed: two cameras with
\* the same fetch, detect and sink answers settle with the same outcome; at
\* every point of the loop the aggregates are determined by the set of
\* outcomes consumed so far; and the finalized row, the set of detail records
\* and the set of cameras in the upsert are determined by the outcomes of the
\* camera list.
Outcome(c) == Val(future[c])
Scanned(S) == {c \in S : ~Truthy(Outcome(c).error)}
Counted(S) == {c \in Scanned(S) : ~IsNone(Outcome(c).result)
                                   /\ Val(Outcome(c).result).waymo_count > 0}

RECURSIVE SumCounts(_)
SumCounts(S) ==
    IF S = {} THEN 0
    ELSE LET c == CHOOSE x \in S : TRUE
         IN Val(Outcome(c).result).waymo_count + SumCounts(S \ {c})

C24_OrderIndependent ==
    /\ \A c, d \in CameraIds :
         (Settled(c) /\ Settled(d) /\ hist[c] = hist[d]) =>
            /\ task[c] = task[d]
            /\ Outcome(c).kind = Outcome(d).kind
            /\ Outcome(c).error = Outcome(d).error
            /\ Outcome(c).image_url = Outcome(d).image_url
            /\ IsNone(Outcome(c).result) <=> IsNone(Outcome(d).result)
            /\ ~IsNone(Outcome(c).result) =>
                  Val(Outcome(c).result).waymo_count = Val(Outcome(d).result).waymo_count
    /\ cameras_failed = Cardinality(consumed \ Scanned(consumed))
    /\ cameras_scanned = Cardinality(Scanned(consumed))
    /\ cameras_with_waymos = Cardinality(Counted(consumed))
    /\ total_waymo_count = SumCounts(Counted(consumed))
    /\ SeqToSet(processed_cameras) = Scanned(consumed)
    /\ Len(processed_cameras) = Cardinality(Scanned(consumed))
    /\ {detections[i].camera_id : i \in 1..Len(detections)} = Counted(consumed)
    /\ Finalized =>
         /\ consumed = CameraSet
         /\ Row.cameras_failed = Cardinality(CameraSet \ Scanned(CameraSet))
         /\ Row.cameras_scanned = Cardinality(Scanned(CameraSet))
         /\ Row.cameras_with_waymos = Cardinality(Counted(CameraSet))
         /\ Row.total_waymo_count = SumCounts(Counted(CameraSet))
    /\ ~IsNone(upsert_arg) => SeqToSet(Val(upsert_arg)) = Scanned(CameraSet)

C24_Witness ==
    /\ pc = "done"
    /\ Len(cameras) = MaxCameras
    /\ FetchFailed(2)
    /\ hist[1] = hist[3]
    /\ processed_cameras = <<3, 1>>
    /\ upsert_arg = Some(<<3, 1>>)
    /\ Row.cameras_scanned = 2

====
